---------------------------- MODULE Spec2Model ----------------------------
(***************************************************************************)
(* Model of the change-driven recompilation engine of CodeManager:         *)
(* src/code_watcher.py (_BatchingHandler, DirectoryWatcher).               *)
(*                                                                         *)
(* One DirectoryWatcher (the controller) is driven by a control thread     *)
(* that calls start() and stop().  Every start() creates a fresh watchdog  *)
(* observer with a fresh _BatchingHandler.  An observer is one dispatch    *)
(* thread with an event queue: the thread takes one event at a time from   *)
(* the queue and runs handler.on_any_event(event) to completion before it  *)
(* looks at its stop flag and at the queue again.  What a handler call    *)
(* does between two accesses of state shared with another thread is one   *)
(* step: only the dispatch thread of an observer touches its handler.     *)
(*                                                                         *)
(* Paths are sequences of segments (Path.parts); a segment is a one        *)
(* character name, written as its code point.  str(p) is the sequence of   *)
(* characters of the path, each segment preceded by the separator.         *)
(***************************************************************************)
EXTENDS Integers, Sequences, FiniteSets, TLC

\* ------------------------------------------------------------- bounds
MaxEvents == 3      \* filesystem notifications explored
MaxQueue  == 1      \* events waiting in one observer's queue
MaxTicks  == 2      \* clock advances explored
TickMs    == 50     \* milliseconds of one clock advance
StartTime == 1000   \* clock reading when the controller is constructed

\* ------------------------------------------------- program constants
MinDebounceMs == 50          \* max(50, int(debounce_ms))
InitialLastEmit == 0         \* self._last_emit = 0

\* debounce_ms values a DirectoryWatcher is constructed with
DebounceChoices == {0, 100}

\* what the root a DirectoryWatcher is constructed with names on disk
RootKinds == {"directory", "missing"}

\* ------------------------------------------------------------- paths
Sep == 0                     \* the path separator, below every name character
RootName == 1
Root == <<RootName>>         \* DirectoryWatcher.root
PA == <<RootName, 2>>        \* two files under the root
PB == <<RootName, 3>>
PG == <<RootName, 5, 2>>     \* a file below an excluded directory
EventPaths == {PA, PB, PG}   \* the paths filesystem notifications name

exclude_dirs == {5}          \* directory names given to the watcher
exclude_file_regexes == {6}  \* each regex is a literal character
PX == <<RootName, 6>>        \* its string matches the exclude-file regex
Files == {PA, PB, PG, PX}    \* paths for which Path.is_file() is true

Max(a, b) == IF a >= b THEN a ELSE b

Range(s) == {s[i] : i \in 1..Len(s)}

\* str(p)
RECURSIVE Str(_)
Str(p) == IF p = <<>> THEN <<>> ELSE <<Sep, Head(p)>> \o Str(Tail(p))

\* s < t for Python strings: code point order, a proper prefix first
RECURSIVE StrLess(_, _)
StrLess(s, t) ==
    IF t = <<>> THEN FALSE
    ELSE IF s = <<>> THEN TRUE
    ELSE IF Head(s) # Head(t) THEN Head(s) < Head(t)
    ELSE StrLess(Tail(s), Tail(t))

\* sorted(S) for a set of strings
RECURSIVE Sorted(_)
Sorted(S) ==
    IF S = {} THEN <<>>
    ELSE LET m == CHOOSE x \in S : \A y \in S \ {x} : StrLess(x, y)
         IN  <<m>> \o Sorted(S \ {m})

\* p.relative_to(root) succeeds
IsRelativeTo(p, root) ==
    /\ Len(p) >= Len(root)
    /\ SubSeq(p, 1, Len(root)) = root

\* p.relative_to(root).parts
RelParts(p, root) == SubSeq(p, Len(root) + 1, Len(p))

\* rx.search(s) for a regex that is the literal character rx
RxSearch(rx, s) == rx \in Range(s)

\* _BatchingHandler._relevant
Relevant(p) ==
    IF ~IsRelativeTo(p, Root) THEN FALSE
    ELSE IF \E part \in Range(RelParts(p, Root)) : part \in exclude_dirs THEN FALSE
    ELSE IF p \in Files /\ \E rx \in exclude_file_regexes : RxSearch(rx, Str(p)) THEN FALSE
    ELSE TRUE

\* ------------------------------------------------------------ file_ops
\* Letters are numbers: the negative ones are the upper-case letters, and
\* c - CaseShift is the upper-case form of the letter c.
CaseShift == 10

\* str.lower() on one character
Lower(c) == IF c < 0 THEN c + CaseShift ELSE c

\* str.lower()
LowerStr(s) == [i \in 1..Len(s) |-> Lower(s[i])]

\* the path segment ".."
DotDot == 9

\* The entries a tree under the root can have: a name in upper case (PU), one
\* that equals an excluded directory name (PE), and entries below both.
PU == <<RootName, 3 - CaseShift>>
PE == <<RootName, 5>>
PUA == <<RootName, 3 - CaseShift, 2>>
PUE == <<RootName, 3 - CaseShift, 5>>
Nodes == {PA, PU, PE, PX, PUA, PUE, PG}

Parent(p) == SubSeq(p, 1, Len(p) - 1)

Name(p) == p[Len(p)]

\* the directory trees: an entry exists only inside a directory
Trees ==
    {k \in [Nodes -> {"none", "file", "dir"}] :
        /\ \A n \in Nodes : (k[n] # "none" /\ Parent(n) # Root) => k[Parent(n)] = "dir"
        /\ k[PX] # "dir"}

\* what the path n names in the tree k
NodeKind(k, n) == IF n = Root THEN "dir" ELSE IF n \in Nodes THEN k[n] ELSE "none"

\* the entries of the directory d
Children(k, d) == {n \in Nodes : Parent(n) = d /\ k[n] # "none"}

\* Path.resolve(): ".." takes the segment before it away
RECURSIVE ResolveFrom(_, _)
ResolveFrom(done, rest) ==
    IF rest = <<>> THEN done
    ELSE IF Head(rest) = DotDot THEN ResolveFrom(Parent(done), Tail(rest))
    ELSE ResolveFrom(Append(done, Head(rest)), Tail(rest))

resolve(p) == ResolveFrom(<<>>, p)

\* p.exists() and p.is_file(): every ".." of p is reached through a directory
is_file(k, p) ==
    /\ \A i \in 1..Len(p) :
          p[i] = DotDot => NodeKind(k, resolve(SubSeq(p, 1, i - 1))) = "dir"
    /\ NodeKind(k, resolve(p)) = "file"

\* the size limit the compile functions are called with
max_bytes == 3000

\* the number of bytes _is_textish reads
PrefixLen == 2048

\* a file without a null byte
NoNul == 0 - 1

\* What a file holds: its size and the offset of its first null byte.
Contents == [size : {max_bytes, max_bytes + 1}, nul_at : {NoNul, PrefixLen - 1, PrefixLen}]

PlainContent == [size |-> max_bytes, nul_at |-> NoNul]

\* latest modification time a file can have
MaxMtime == 2

\* a mutant of _is_textish that reads one byte less
is_textish_short(c) == ~(c.nul_at # NoNul /\ c.nul_at < PrefixLen - 1)

\* _is_textish: no null byte among the first 2048 bytes
is_textish(c) == ~(c.nul_at # NoNul /\ c.nul_at < PrefixLen)

\* _should_skip_file; stat and open raise for what is not a regular file
should_skip_file(k, content, p, limit) ==
    IF ~is_file(k, p) THEN TRUE
    ELSE IF content[resolve(p)].size > limit THEN TRUE
    ELSE IF ~is_textish(content[resolve(p)]) THEN TRUE
    ELSE FALSE

\* p.suffix.lower(): a name's letter stands for its extension
Suffix(p) == Lower(Name(p))

\* os.walk from d with the pruning and the extension test of _iter_files
RECURSIVE Walk(_, _, _)
Walk(k, d, exts) ==
    {p \in Children(k, d) : k[p] = "file" /\ ~(exts # {} /\ Suffix(p) \notin exts)}
    \cup UNION {Walk(k, c, exts) :
                  c \in {c \in Children(k, d) : k[c] = "dir" /\ Name(c) \notin exclude_dirs}}

\* _iter_files; the order of the list is the order os.walk meets the files in
iter_files(k, exts) == Walk(k, Root, exts)

\* the orders a directory listing can come in
RECURSIVE Perms(_)
Perms(S) ==
    IF S = {} THEN {<<>>}
    ELSE UNION {{<<x>> \o s : s \in Perms(S \ {x})} : x \in S}

\* _excluded of compile_codefile
Excluded(p) == \E rx \in exclude_file_regexes : RxSearch(rx, Str(p))

\* list.sort(key=...) is stable: an element goes behind those with an equal key
RECURSIVE InsertByKey(_, _)
InsertByKey(x, s) ==
    IF s = <<>> THEN <<x>>
    ELSE IF StrLess(x[1], Head(s)[1]) THEN <<x>> \o s
    ELSE <<Head(s)>> \o InsertByKey(x, Tail(s))

RECURSIVE SortPairs(_)
SortPairs(s) ==
    IF s = <<>> THEN <<>>
    ELSE InsertByKey(s[Len(s)], SortPairs(SubSeq(s, 1, Len(s) - 1)))

\* items sorted by the keys computed for them
list_sort(items, keys) ==
    LET sorted == SortPairs([i \in 1..Len(items) |-> <<keys[i], items[i]>>])
    IN  [i \in 1..Len(items) |-> sorted[i][2]]

\* key=lambda p: str(p).lower()
PathKeys(items) == [i \in 1..Len(items) |-> LowerStr(Str(items[i]))]

\* the loop of compile_codefile: the files that get a section, in order
RECURSIVE Sections(_, _, _, _)
Sections(k, content, files, regexes) ==
    IF files = <<>> THEN <<>>
    ELSE LET p == Head(files)
             rest == Sections(k, content, Tail(files), regexes)
         IN  IF (regexes /\ Excluded(p)) \/ should_skip_file(k, content, p, max_bytes)
             THEN rest
             ELSE <<p>> \o rest

\* The path strings a manifest can hold: a string may be quoted, and SUA
\* names the file PA by way of the directory PU.
SUA == <<RootName, 3 - CaseShift, DotDot, 2>>
RawPaths == {[quoted |-> q, path |-> p] : q \in BOOLEAN, p \in {PA, SUA}}
                \cup {[quoted |-> FALSE, path |-> PUA]}

\* normalize_input_path on a POSIX absolute path: the quotes are stripped
normalize_input_path(raw) == raw.path

\* longest list of explicit files in a manifest
MaxManifest == 2

Manifests == UNION {[1..n -> RawPaths] : n \in 0..MaxManifest}

\* the folder entries a manifest can hold: none, or PU with no extension filter
Folders == {<<>>, PU}

\* list_folder_files, recursive and with exts empty: the files below the folder
list_folder_files(k, folder) ==
    IF folder = <<>> \/ NodeKind(k, folder) # "dir" THEN {}
    ELSE {n \in Nodes : n # folder /\ IsRelativeTo(n, folder) /\ k[n] = "file"}

\* the explicit files of build_hybrid_set
RECURSIVE ExplicitFiles(_, _)
ExplicitFiles(k, raws) ==
    IF raws = <<>> THEN <<>>
    ELSE LET p == normalize_input_path(Head(raws))
         IN  (IF is_file(k, p) THEN <<p>> ELSE <<>>) \o ExplicitFiles(k, Tail(raws))

\* a mutant of the loop that tells files apart by str(p)
RECURSIVE UniqBySpelling(_, _)
UniqBySpelling(files, seen) ==
    IF files = <<>> THEN <<>>
    ELSE LET s == Head(files)
         IN  IF s \in seen THEN UniqBySpelling(Tail(files), seen)
             ELSE <<s>> \o UniqBySpelling(Tail(files), seen \cup {s})

\* the de-duplication loop of build_hybrid_set
RECURSIVE Uniq(_, _)
Uniq(files, seen) ==
    IF files = <<>> THEN <<>>
    ELSE LET s == resolve(Head(files))
         IN  IF s \in seen THEN Uniq(Tail(files), seen)
             ELSE <<s>> \o Uniq(Tail(files), seen \cup {s})

\* build_hybrid_set for the explicit files and the folder files as listed
build_hybrid_set(k, raws, listed) ==
    LET files == ExplicitFiles(k, raws) \o listed
    IN  Uniq(list_sort(files, PathKeys(files)), {})

\* the files compile_codefile_from_paths keeps
RECURSIVE ExistingFiles(_, _)
ExistingFiles(k, paths_in) ==
    IF paths_in = <<>> THEN <<>>
    ELSE (IF is_file(k, Head(paths_in)) THEN <<Head(paths_in)>> ELSE <<>>)
             \o ExistingFiles(k, Tail(paths_in))

\* compile_codefile_from_paths: the files that get a section, in order
compile_codefile_from_paths(k, content, paths_in) ==
    LET files == ExistingFiles(k, paths_in)
    IN  Sections(k, content, list_sort(files, PathKeys(files)), FALSE)

\* key=lambda p: (not p.is_dir(), p.name.lower()) of compile_structure_md
EntryLess(k, a, b) ==
    \/ k[a] = "dir" /\ k[b] # "dir"
    \/ (k[a] = "dir") = (k[b] = "dir") /\ Lower(Name(a)) < Lower(Name(b))

\* sorted(dir_path.iterdir(), key=...); no two entries of Nodes tie
RECURSIVE SortEntries(_, _)
SortEntries(k, S) ==
    IF S = {} THEN <<>>
    ELSE LET m == CHOOSE x \in S : \A y \in S \ {x} : EntryLess(k, x, y)
         IN  <<m>> \o SortEntries(k, S \ {m})

\* last = i == len(entries) - 1
IsLast(entries, i) == i = Len(entries)

\* tree() of compile_structure_md from entry i on: the lines appended to buf.
\* A line is the indentation (one element a level, "blank" where the branch
\* is closed and "bar" where it goes on), the connector and the entry.
RECURSIVE TreeFrom(_, _, _, _)
TreeFrom(k, prefix, entries, i) ==
    IF i > Len(entries) THEN <<>>
    ELSE LET entry == entries[i]
             last == IsLast(entries, i)
             line == [prefix |-> prefix,
                      connector |-> IF last THEN "last" ELSE "mid",
                      entry |-> entry]
             rest == TreeFrom(k, prefix, entries, i + 1)
         IN  IF k[entry] = "dir"
             THEN IF Name(entry) \in exclude_dirs THEN rest
                  ELSE <<line>>
                       \o TreeFrom(k, Append(prefix, IF last THEN "blank" ELSE "bar"),
                                   SortEntries(k, Children(k, entry)), 1)
                       \o rest
             ELSE <<line>> \o rest

\* compile_structure_md: the lines below the heading
compile_structure_md(k) == TreeFrom(k, <<>>, SortEntries(k, Children(k, Root)), 1)

\* -------------------------------------------------------------- state
VARIABLES
    debounce_ms,  \* DirectoryWatcher.debounce_ms
    observer,     \* DirectoryWatcher._observer: 0 is None, else an observer
    ctl,          \* the control thread: "ready", or "joining" inside stop()
    created,      \* observers created so far
    root_kind,    \* what self.root names on disk: "directory" or "missing"
    error,        \* the last start() or stop() call raised
    clock,        \* int(time.time() * 1000)
    fs_events,    \* filesystem notifications so far
    ticks,        \* clock advances so far
    pc,           \* per observer: position of its dispatch thread
    stopped,      \* per observer: stop() was called on it
    queue,        \* per observer: its event queue
    now,          \* per handler: the local now of _maybe_emit (0 outside its if)
    paths,        \* per handler: the local paths of _maybe_emit (<<>> outside)
    changes,      \* per handler: self._changes
    last_emit,    \* per handler: self._last_emit
    result,       \* per handler: how the last on_any_event call ended for its caller
    \* history, read by the properties only
    since,        \* per handler: relevant paths handled since the last snapshot
    evt_at,       \* per handler: clock at the last relevant event handled
    burst,        \* per handler: the paths of the burst the last event belongs to
    burst_calls,  \* per handler: on_batch invocations since that burst began
    outcome,      \* per handler: how the last on_batch invocation ended
    late,         \* per handler: relevant paths that reached the queue during
                  \* the on_batch invocation in progress
    call,         \* the function applied and its inputs: op, the files'
                  \* content and mtime, include_exts, order_mode, the
                  \* manifest's files and folder, the event's path
    kind,         \* the directory tree: what each entry is
    run,          \* where the function is (pc), and for compile_codefile the
                  \* files found, the sort keys computed, the file whose key
                  \* is being computed (cur), raised, files vanished so far
    out           \* what the function produced

vars == <<debounce_ms, observer, ctl, created, root_kind, error, clock,
          fs_events, ticks, pc, stopped, queue, now, paths, changes, last_emit,
          result, since, evt_at, burst, burst_calls, outcome, late,
          call, kind, run, out>>

ctlVars == <<debounce_ms, observer, ctl, created, root_kind, error>>
envVars == <<clock, fs_events, ticks>>
handlerVars == <<now, paths, changes, last_emit, result>>
histVars == <<since, evt_at, burst, burst_calls, outcome, late>>
fileVars == <<call, kind, run, out>>
watcherVars == <<ctlVars, envVars, pc, stopped, queue, handlerVars, histVars>>

\* the observers start() can create
Observers == {1, 2}

\* self.debounce_ms of a handler
\* a mutant of __init__ that keeps debounce_ms as given
DebounceUnclamped == debounce_ms

Debounce == Max(MinDebounceMs, debounce_ms)

\* no file_ops function is applied
FileOpsOff == call = <<>> /\ kind = <<>> /\ run = <<>> /\ out = <<>>

\* the state after DirectoryWatcher(...) with debounce_ms one of choices
Constructed(choices) ==
    /\ debounce_ms \in choices
    /\ observer = 0
    /\ ctl = "ready"
    /\ created = 0
    /\ root_kind \in RootKinds
    /\ error = FALSE
    /\ clock = StartTime
    /\ fs_events = 0
    /\ ticks = 0
    /\ pc = [o \in Observers |-> "none"]
    /\ stopped = [o \in Observers |-> FALSE]
    /\ queue = [o \in Observers |-> <<>>]
    /\ now = [o \in Observers |-> 0]
    /\ paths = [o \in Observers |-> <<>>]
    /\ changes = [o \in Observers |-> {}]
    /\ last_emit = [o \in Observers |-> InitialLastEmit]
    /\ result = [o \in Observers |-> "none"]
    /\ since = [o \in Observers |-> {}]
    /\ evt_at = [o \in Observers |-> 0]
    /\ burst = [o \in Observers |-> {}]
    /\ burst_calls = [o \in Observers |-> 0]
    /\ outcome = [o \in Observers |-> "none"]
    /\ late = [o \in Observers |-> {}]
    /\ FileOpsOff

Init == Constructed(DebounceChoices)

\* an observer whose emitter delivers filesystem notifications
Running(o) == pc[o] \notin {"none", "unstarted", "dead"} /\ ~stopped[o] /\ root_kind = "directory"

\* -------------------------------------------------- DirectoryWatcher
\* start() on a root that is a directory: a new handler and observer;
\* self._observer is overwritten, whatever it held
Start ==
    /\ ctl = "ready"
    /\ root_kind = "directory"
    /\ created < Cardinality(Observers)
    /\ created' = created + 1
    /\ observer' = created + 1
    /\ pc' = [pc EXCEPT ![created + 1] = "idle"]
    /\ error' = FALSE
    /\ UNCHANGED <<fileVars, debounce_ms, ctl, root_kind, envVars, stopped, queue, handlerVars, histVars>>

\* start() on a missing root, with a backend whose emitter fails inside
\* observer.start(): the call raises after self._observer was assigned, and
\* the observer's thread was never started
StartRaises ==
    /\ ctl = "ready"
    /\ root_kind = "missing"
    /\ created < Cardinality(Observers)
    /\ created' = created + 1
    /\ observer' = created + 1
    /\ pc' = [pc EXCEPT ![created + 1] = "unstarted"]
    /\ error' = TRUE
    /\ UNCHANGED <<fileVars, debounce_ms, ctl, root_kind, envVars, stopped, queue, handlerVars, histVars>>

\* start() on a missing root, with a backend whose emitter fails in its own
\* thread: the call returns, the dispatch thread runs and no event ever comes
StartSilent ==
    /\ ctl = "ready"
    /\ root_kind = "missing"
    /\ created < Cardinality(Observers)
    /\ created' = created + 1
    /\ observer' = created + 1
    /\ pc' = [pc EXCEPT ![created + 1] = "idle"]
    /\ error' = FALSE
    /\ UNCHANGED <<fileVars, debounce_ms, ctl, root_kind, envVars, stopped, queue, handlerVars, histVars>>

\* stop() with self._observer set: observer.stop(), then join(timeout=5)
StopBegin ==
    /\ ctl = "ready"
    /\ observer # 0
    /\ stopped' = [stopped EXCEPT ![observer] = TRUE]
    /\ ctl' = "joining"
    /\ UNCHANGED <<fileVars, debounce_ms, observer, created, root_kind, error, envVars, pc, queue,
                   handlerVars, histVars>>

\* stop() with self._observer None
StopIdle ==
    /\ ctl = "ready"
    /\ observer = 0
    /\ UNCHANGED vars

\* join returned because the dispatch thread ended
JoinReturn ==
    /\ ctl = "joining"
    /\ pc[observer] = "dead"
    /\ observer' = 0
    /\ ctl' = "ready"
    /\ error' = FALSE
    /\ UNCHANGED <<fileVars, debounce_ms, created, root_kind, envVars, pc, stopped, queue,
                   handlerVars, histVars>>

\* join timed out: the dispatch thread is still inside on_batch, the one
\* part of a handler call that runs for an unbounded time
JoinTimeout ==
    /\ ctl = "joining"
    /\ pc[observer] = "callback"
    /\ observer' = 0
    /\ ctl' = "ready"
    /\ error' = FALSE
    /\ UNCHANGED <<fileVars, debounce_ms, created, root_kind, envVars, pc, stopped, queue,
                   handlerVars, histVars>>

\* join of a thread that was never started raises RuntimeError: stop() raises
\* before it reaches self._observer = None
JoinRaises ==
    /\ ctl = "joining"
    /\ pc[observer] = "unstarted"
    /\ ctl' = "ready"
    /\ error' = TRUE
    /\ UNCHANGED <<fileVars, debounce_ms, observer, created, root_kind, envVars, pc, stopped, queue,
                   handlerVars, histVars>>

\* ------------------------------------------------------- environment
Tick ==
    /\ ticks < MaxTicks
    /\ ticks' = ticks + 1
    /\ clock' = clock + TickMs
    /\ UNCHANGED <<fileVars, ctlVars, fs_events, pc, stopped, queue, handlerVars, histVars>>

\* a filesystem notification for p reaches every running observer's queue
FsEvent(p) ==
    /\ fs_events < MaxEvents
    /\ \E o \in Observers : Running(o)
    /\ \A o \in Observers : Running(o) => Len(queue[o]) < MaxQueue
    /\ fs_events' = fs_events + 1
    /\ queue' = [o \in Observers |->
                    IF Running(o) THEN Append(queue[o], p) ELSE queue[o]]
    /\ late' = [o \in Observers |->
                    IF Running(o) /\ pc[o] = "callback" /\ Relevant(p)
                    THEN late[o] \cup {p} ELSE late[o]]
    /\ UNCHANGED <<fileVars, ctlVars, clock, ticks, pc, stopped, handlerVars,
                   since, evt_at, burst, burst_calls, outcome>>

\* ------------------------------------------- observer dispatch thread
\* The thread sees its stop flag and ends.  Nothing refers to the observer's
\* queue and handler any more: they are returned to their initial values.
ThreadExit(o) ==
    /\ pc[o] = "idle"
    /\ stopped[o]
    /\ pc' = [pc EXCEPT ![o] = "dead"]
    /\ queue' = [queue EXCEPT ![o] = <<>>]
    /\ changes' = [changes EXCEPT ![o] = {}]
    /\ last_emit' = [last_emit EXCEPT ![o] = InitialLastEmit]
    /\ result' = [result EXCEPT ![o] = "none"]
    /\ since' = [since EXCEPT ![o] = {}]
    /\ evt_at' = [evt_at EXCEPT ![o] = 0]
    /\ burst' = [burst EXCEPT ![o] = {}]
    /\ burst_calls' = [burst_calls EXCEPT ![o] = 0]
    /\ outcome' = [outcome EXCEPT ![o] = "none"]
    /\ UNCHANGED <<fileVars, ctlVars, envVars, stopped, now, paths, late>>

\* ---------------------------------------------------- _BatchingHandler
\* a mutant of on_any_event: the path replaces what was pending
CollectedAlone(pending, p) == IF Relevant(p) THEN {Str(p)} ELSE pending

\* self._changes after the first two statements of on_any_event
Collected(pending, p) == IF Relevant(p) THEN pending \cup {Str(p)} ELSE pending

\* a mutant of the test of _maybe_emit: an empty pending set passes
ShouldEmitAlsoEmpty(pending, t, last) == (t - last) >= Debounce

\* the test of _maybe_emit, with t the value read for now
ShouldEmit(pending, t, last) == pending # {} /\ (t - last) >= Debounce

\* history: a relevant event p handled at time t continues the burst of the
\* previous one when it comes less than the debounce interval after it and
\* its path is new to the burst; otherwise it begins a burst.
ContinuesBurst(o, p, t) == burst[o] # {} /\ (t - evt_at[o]) < Debounce /\ p \notin burst[o]

\* The thread takes the next event and calls handler.on_any_event(event):
\* the path is collected if relevant, then _maybe_emit reads now, tests, and
\* on success takes paths = sorted(self._changes).
OnAnyEvent(o) ==
    /\ pc[o] = "idle"
    /\ ~stopped[o]
    /\ queue[o] # <<>>
    /\ LET p == Head(queue[o])
           pending == Collected(changes[o], p)
       IN  /\ queue' = [queue EXCEPT ![o] = Tail(queue[o])]
           /\ changes' = [changes EXCEPT ![o] = pending]
           /\ IF ShouldEmit(pending, clock, last_emit[o])
              THEN /\ now' = [now EXCEPT ![o] = clock]
                   /\ paths' = [paths EXCEPT ![o] = Sorted(pending)]
                   /\ pc' = [pc EXCEPT ![o] = "clear"]
                   /\ UNCHANGED result
              ELSE /\ pc' = [pc EXCEPT ![o] = "idle"]
                   /\ result' = [result EXCEPT ![o] = "returned"]
                   /\ UNCHANGED <<now, paths>>
           /\ IF Relevant(p)
              THEN /\ since' = [since EXCEPT ![o] = @ \cup {p}]
                   /\ evt_at' = [evt_at EXCEPT ![o] = clock]
                   /\ burst' = [burst EXCEPT ![o] =
                                   IF ContinuesBurst(o, p, clock) THEN @ \cup {p} ELSE {p}]
                   /\ burst_calls' = [burst_calls EXCEPT ![o] =
                                   IF ContinuesBurst(o, p, clock) THEN @ ELSE 0]
              ELSE UNCHANGED <<since, evt_at, burst, burst_calls>>
    /\ UNCHANGED <<fileVars, ctlVars, envVars, stopped, last_emit, outcome, late>>

\* _maybe_emit: the pending set is cleared, _last_emit set, on_batch called
Clear(o) ==
    /\ pc[o] = "clear"
    /\ changes' = [changes EXCEPT ![o] = {}]
    /\ last_emit' = [last_emit EXCEPT ![o] = now[o]]
    /\ pc' = [pc EXCEPT ![o] = "callback"]
    /\ since' = [since EXCEPT ![o] = {}]
    /\ burst_calls' = [burst_calls EXCEPT ![o] = @ + 1]
    /\ UNCHANGED <<fileVars, ctlVars, envVars, stopped, queue, now, paths, result,
                   evt_at, burst, outcome, late>>

\* on_batch(paths) returns
CallbackReturn(o) ==
    /\ pc[o] = "callback"
    /\ pc' = [pc EXCEPT ![o] = "idle"]
    /\ result' = [result EXCEPT ![o] = "returned"]
    /\ now' = [now EXCEPT ![o] = 0]
    /\ paths' = [paths EXCEPT ![o] = <<>>]
    /\ outcome' = [outcome EXCEPT ![o] = "returned"]
    /\ late' = [late EXCEPT ![o] = {}]
    /\ UNCHANGED <<fileVars, ctlVars, envVars, stopped, queue, changes, last_emit,
                   since, evt_at, burst, burst_calls>>

\* a mutant of the except clause: the batch is put back for a retry
CallbackRaiseRequeue(o) ==
    /\ pc[o] = "callback"
    /\ pc' = [pc EXCEPT ![o] = "idle"]
    /\ result' = [result EXCEPT ![o] = "returned"]
    /\ changes' = [changes EXCEPT ![o] = @ \cup Range(paths[o])]
    /\ now' = [now EXCEPT ![o] = 0]
    /\ paths' = [paths EXCEPT ![o] = <<>>]
    /\ outcome' = [outcome EXCEPT ![o] = "raised"]
    /\ late' = [late EXCEPT ![o] = {}]
    /\ UNCHANGED <<fileVars, ctlVars, envVars, stopped, queue, last_emit,
                   since, evt_at, burst, burst_calls>>

\* a mutant without the try: the exception ends the dispatch thread
CallbackRaiseUncaught(o) ==
    /\ pc[o] = "callback"
    /\ pc' = [pc EXCEPT ![o] = "dead"]
    /\ result' = [result EXCEPT ![o] = "raised"]
    /\ now' = [now EXCEPT ![o] = 0]
    /\ paths' = [paths EXCEPT ![o] = <<>>]
    /\ outcome' = [outcome EXCEPT ![o] = "raised"]
    /\ late' = [late EXCEPT ![o] = {}]
    /\ UNCHANGED <<fileVars, ctlVars, envVars, stopped, queue, changes, last_emit,
                   since, evt_at, burst, burst_calls>>

\* on_batch(paths) raises: except Exception: pass
CallbackRaise(o) ==
    /\ pc[o] = "callback"
    /\ pc' = [pc EXCEPT ![o] = "idle"]
    /\ result' = [result EXCEPT ![o] = "returned"]
    /\ now' = [now EXCEPT ![o] = 0]
    /\ paths' = [paths EXCEPT ![o] = <<>>]
    /\ outcome' = [outcome EXCEPT ![o] = "raised"]
    /\ late' = [late EXCEPT ![o] = {}]
    /\ UNCHANGED <<fileVars, ctlVars, envVars, stopped, queue, changes, last_emit,
                   since, evt_at, burst, burst_calls>>

\* every step of observer o's dispatch thread
ThreadStep(o) ==
    \/ ThreadExit(o)
    \/ OnAnyEvent(o)
    \/ Clear(o)
    \/ CallbackReturn(o)
    \/ CallbackRaise(o)

Next ==
    \/ Start
    \/ StartRaises
    \/ StartSilent
    \/ StopBegin
    \/ StopIdle
    \/ JoinReturn
    \/ JoinTimeout
    \/ JoinRaises
    \/ Tick
    \/ \E p \in EventPaths : FsEvent(p)
    \/ \E o \in Observers : ThreadStep(o)

Spec == Init /\ [][Next]_vars

\* the dispatch threads are scheduled; nothing obliges the environment
FairSpec == Spec /\ \A o \in Observers : WF_vars(ThreadStep(o))

\* ------------------------------------------------------ one session
\* A controller that is started once, constructed with any of a wider range
\* of debounce_ms values: negative, zero, and just below and above the
\* minimum of 50.
AnyDebounce == {0 - 20, 0, 49, 51, 100}

FirstStart == created = 0 /\ Start

FirstStartRaises == created = 0 /\ StartRaises

FirstStartSilent == created = 0 /\ StartSilent

SessionNext ==
    \/ FirstStart
    \/ FirstStartRaises
    \/ FirstStartSilent
    \/ StopBegin
    \/ StopIdle
    \/ JoinReturn
    \/ JoinTimeout
    \/ JoinRaises
    \/ Tick
    \/ \E p \in EventPaths : FsEvent(p)
    \/ \E o \in Observers : ThreadStep(o)

SessionInit == Constructed(AnyDebounce)

SessionSpec == SessionInit /\ [][SessionNext]_vars

\* ------------------------------------------------- file_ops, applied
\* The functions of file_ops and the handler's relevance test, each applied
\* to inputs drawn from the sets above.

\* the paths an event can carry: the root, a path outside it, files, an
\* excluded directory and a directory whose string matches the regex
EventInputs == {Root, <<7, 2>>, PA, PB, PE, PG, PX, <<RootName, 4, 6>>}

\* the extension filters compile_codefile is called with
ExtChoices == {{}, {2, 3}}

\* files deleted while a compile runs, at most
MaxVanish == 1

\* the watcher is not running
WatcherOff ==
    /\ debounce_ms = 0
    /\ observer = 0
    /\ ctl = "ready"
    /\ created = 0
    /\ root_kind = "directory"
    /\ error = FALSE
    /\ clock = StartTime
    /\ fs_events = 0
    /\ ticks = 0
    /\ pc = [o \in Observers |-> "none"]
    /\ stopped = [o \in Observers |-> FALSE]
    /\ queue = [o \in Observers |-> <<>>]
    /\ now = [o \in Observers |-> 0]
    /\ paths = [o \in Observers |-> <<>>]
    /\ changes = [o \in Observers |-> {}]
    /\ last_emit = [o \in Observers |-> InitialLastEmit]
    /\ result = [o \in Observers |-> "none"]
    /\ since = [o \in Observers |-> {}]
    /\ evt_at = [o \in Observers |-> 0]
    /\ burst = [o \in Observers |-> {}]
    /\ burst_calls = [o \in Observers |-> 0]
    /\ outcome = [o \in Observers |-> "none"]
    /\ late = [o \in Observers |-> {}]

\* a call before its inputs are chosen
NoCall ==
    [op |-> "none",
     content |-> [n \in Nodes |-> PlainContent],
     mtime |-> [n \in Nodes |-> 1],
     include_exts |-> {},
     order_mode |-> "path",
     manifest |-> <<>>,
     folder |-> <<>>,
     event |-> <<>>]

\* the file PA, when there is one, has any of the contents
ContentChoices(k) ==
    IF k[PA] # "file" THEN {NoCall.content}
    ELSE {[n \in Nodes |-> IF n = PA THEN c ELSE PlainContent] : c \in Contents}

\* the file PA, when there is one, has any of the modification times
MtimeChoices(k) ==
    IF k[PA] # "file" THEN {NoCall.mtime}
    ELSE {[n \in Nodes |-> IF n = PA THEN t ELSE 1] : t \in 1..MaxMtime}

CodefileCalls(k) ==
    {[NoCall EXCEPT !.op = "compile_codefile", !.include_exts = x, !.content = c] :
        x \in ExtChoices, c \in ContentChoices(k)}
    \cup {[NoCall EXCEPT !.op = "compile_codefile", !.include_exts = x,
                         !.order_mode = "mtime", !.mtime = t] :
             x \in ExtChoices, t \in MtimeChoices(k)}

FromPathsCalls(k) ==
    {[NoCall EXCEPT !.op = "compile_codefile_from_paths", !.manifest = m,
                    !.folder = f, !.content = c] :
        m \in Manifests, f \in Folders, c \in ContentChoices(k)}

\* the trees a manifest of RawPaths and Folders can name an entry of
ManifestTrees == {k \in Trees : k[PE] = "none" /\ k[PX] = "none"}

NoRun == [pc |-> "start", files |-> {}, keys |-> {}, cur |-> <<>>,
          raised |-> FALSE, vanished |-> 0]

FileOpsInit ==
    /\ WatcherOff
    /\ run = NoRun
    /\ out = <<>>
    /\ \/ /\ kind = [n \in Nodes |-> "none"]
          /\ call \in {[NoCall EXCEPT !.op = "on_any_event", !.event = e] : e \in EventInputs}
       \/ /\ kind \in Trees
          /\ call \in CodefileCalls(kind)
       \/ /\ kind \in ManifestTrees
          /\ call \in FromPathsCalls(kind)
       \/ /\ kind \in Trees
          /\ call = [NoCall EXCEPT !.op = "compile_structure_md"]

\* on_any_event on a handler with nothing pending: the strings collected
CollectEvent ==
    /\ call.op = "on_any_event"
    /\ run.pc = "start"
    /\ out' = Sorted(Collected({}, call.event))
    /\ run' = [run EXCEPT !.pc = "done"]
    /\ UNCHANGED <<watcherVars, call, kind>>

\* compile_codefile with order_mode "path"
CompileCodefile ==
    /\ call.op = "compile_codefile"
    /\ call.order_mode = "path"
    /\ run.pc = "start"
    /\ \E walk \in Perms(iter_files(kind, call.include_exts)) :
          out' = Sections(kind, call.content, list_sort(walk, PathKeys(walk)), TRUE)
    /\ run' = [run EXCEPT !.pc = "done"]
    /\ UNCHANGED <<watcherVars, call, kind>>

\* compile_codefile with order_mode "mtime": _iter_files has returned
MtimeBegin ==
    /\ call.op = "compile_codefile"
    /\ call.order_mode = "mtime"
    /\ run.pc = "start"
    /\ run' = [run EXCEPT !.pc = "keys", !.files = iter_files(kind, call.include_exts)]
    /\ UNCHANGED <<watcherVars, call, kind, out>>

\* the sort key of p: p.exists() is false and the key is 0, or it is true
KeyExists(p) ==
    /\ run.pc = "keys"
    /\ run.cur = <<>>
    /\ p \in run.files
    /\ \A kp \in run.keys : kp[2] # p
    /\ run' = IF kind[p] = "none"
              THEN [run EXCEPT !.keys = @ \cup {<<<<0>>, p>>}]
              ELSE [run EXCEPT !.cur = p]
    /\ UNCHANGED <<watcherVars, call, kind, out>>

\* the sort key of p: p.stat().st_mtime, which raises when p is gone
KeyStat ==
    /\ run.pc = "keys"
    /\ run.cur # <<>>
    /\ run' = IF kind[run.cur] = "none"
              THEN [run EXCEPT !.cur = <<>>, !.raised = TRUE, !.pc = "done"]
              ELSE [run EXCEPT !.cur = <<>>,
                               !.keys = @ \cup {<<<<call.mtime[run.cur]>>, run.cur>>}]
    /\ UNCHANGED <<watcherVars, call, kind, out>>

\* the sort by the keys, and the loop over the sorted files
MtimeSort ==
    /\ run.pc = "keys"
    /\ run.cur = <<>>
    /\ Cardinality(run.keys) = Cardinality(run.files)
    /\ \E walk \in Perms(run.files) :
          LET key_of(p) == (CHOOSE kp \in run.keys : kp[2] = p)[1]
              walk_keys == [i \in 1..Len(walk) |-> key_of(walk[i])]
          IN  out' = Sections(kind, call.content, list_sort(walk, walk_keys), TRUE)
    /\ run' = [run EXCEPT !.pc = "done"]
    /\ UNCHANGED <<watcherVars, call, kind>>

\* another process deletes a file while compile_codefile computes the keys
Vanish(p) ==
    /\ run.pc = "keys"
    /\ run.vanished < MaxVanish
    /\ p \in run.files
    /\ kind[p] = "file"
    /\ kind' = [kind EXCEPT ![p] = "none"]
    /\ run' = [run EXCEPT !.vanished = @ + 1]
    /\ UNCHANGED <<watcherVars, call, out>>

\* build_hybrid_set, then compile_codefile_from_paths on what it returned
CompileFromPaths ==
    /\ call.op = "compile_codefile_from_paths"
    /\ run.pc = "start"
    /\ \E listed \in Perms(list_folder_files(kind, call.folder)) :
          out' = compile_codefile_from_paths(kind, call.content,
                                             build_hybrid_set(kind, call.manifest, listed))
    /\ run' = [run EXCEPT !.pc = "done"]
    /\ UNCHANGED <<watcherVars, call, kind>>

CompileStructure ==
    /\ call.op = "compile_structure_md"
    /\ run.pc = "start"
    /\ out' = compile_structure_md(kind)
    /\ run' = [run EXCEPT !.pc = "done"]
    /\ UNCHANGED <<watcherVars, call, kind>>

FileOpsNext ==
    \/ CollectEvent
    \/ CompileCodefile
    \/ MtimeBegin
    \/ \E p \in Nodes : KeyExists(p)
    \/ KeyStat
    \/ MtimeSort
    \/ \E p \in Nodes : Vanish(p)
    \/ CompileFromPaths
    \/ CompileStructure

FileOpsSpec == FileOpsInit /\ [][FileOpsNext]_vars


\* ------------------------------------------------------------ properties
\* the strings of a set of paths
StrSet(P) == {Str(p) : p \in P}

\* an on_batch invocation of handler o begins in this step
CallbackBegins(o) == pc[o] # "callback" /\ pc'[o] = "callback"

\* an on_batch invocation of handler o ends in this step by raising
CallbackRaises(o) == pc[o] = "callback" /\ pc'[o] # "callback" /\ outcome'[o] = "raised"

\* handler o is handed the next event of its queue in this step
EventHandled(o) == pc[o] = "idle" /\ ~stopped[o] /\ queue[o] # <<>> /\ queue'[o] = Tail(queue[o])

\* C1: Debounce collapsing.  For a burst of relevant events for distinct
\* paths, each less than the debounce interval after the previous one,
\* on_batch is invoked at most once, and once it has been invoked no path of
\* the burst is left outside the batch it carried.
C1_DebounceCollapsing ==
    \A o \in Observers :
        Cardinality(burst[o]) >= 2 =>
            /\ burst_calls[o] <= 1
            /\ burst_calls[o] = 1 => burst[o] \cap since[o] = {}

\* handler o of a running session holds pending paths and the debounce
\* interval has elapsed since its last emission
Stranded(o) == Running(o) /\ changes[o] # {} /\ (clock - last_emit[o]) >= Debounce

\* C2: Liveness of delivery.  While the session runs, pending paths whose
\* debounce interval has elapsed are eventually handed to on_batch, also when
\* no further filesystem event arrives.
C2_DeliveryLiveness ==
    \A o \in Observers : Stranded(o) ~> (pc[o] = "callback" \/ ~Running(o))

\* C3: After stop() has returned and until start() is called again, no
\* on_batch invocation begins.
C3_NoCallbackAfterStop ==
    [][(observer = 0 /\ ctl = "ready") =>
           \A o \in Observers : ~CallbackBegins(o)]_vars

\* C4: Single active session.  At most one observer created by the
\* controller is running and able to deliver events to on_batch.
C4_SingleSession == Cardinality({o \in Observers : Running(o)}) <= 1

\* C5: Emission step.  on_batch is invoked only when the pending set is
\* non-empty and now - _last_emit >= the debounce interval; it receives
\* exactly the pending paths, duplicate-free and ascending, and when its body
\* begins the pending set is empty and _last_emit equals now.
C5_EmissionStep ==
    [][\A o \in Observers : CallbackBegins(o) =>
           /\ changes[o] # {}
           /\ (now[o] - last_emit[o]) >= Debounce
           /\ paths'[o] = paths[o]
           /\ paths[o] # <<>>
           /\ Range(paths[o]) = changes[o]
           /\ Len(paths[o]) = Cardinality(changes[o])
           /\ \A i \in 1..(Len(paths[o]) - 1) : StrLess(paths[o][i], paths[o][i + 1])
           /\ changes'[o] = {}
           /\ last_emit'[o] = now[o]
           /\ now'[o] = now[o]]_vars

C5_Witness ==
    \E o \in Observers :
        /\ pc[o] = "callback"
        /\ paths[o] = <<Str(PA), Str(PB)>>
        /\ last_emit[o] = now[o]

\* C6: At-most-once delivery on failure.  When on_batch raises, the paths of
\* its batch are not put back into the pending set, and a batch that begins
\* after a raise carries only paths for which a relevant event was handled
\* since the previous batch was taken.
C6_AtMostOnce ==
    [][\A o \in Observers :
           /\ CallbackRaises(o) =>
                  /\ changes'[o] = changes[o]
                  /\ changes'[o] \cap Range(paths[o]) = {}
           /\ (CallbackBegins(o) /\ outcome[o] = "raised") =>
                  Range(paths[o]) \subseteq StrSet(since[o])]_vars

C6_Witness ==
    \E o \in Observers :
        /\ outcome[o] = "raised"
        /\ pc[o] = "callback"
        /\ burst_calls[o] >= 2

\* C7: A raising callback does not end the session.  The raise leaves the
\* dispatch thread alive and waiting for events, and afterwards a relevant
\* event handled at least the debounce interval after the last emission
\* starts a new on_batch invocation with the paths then pending.
C7_RaiseDoesNotTerminate ==
    [][\A o \in Observers :
           /\ CallbackRaises(o) => (pc'[o] = "idle" /\ stopped'[o] = stopped[o])
           /\ (/\ outcome[o] = "raised"
               /\ EventHandled(o)
               /\ Relevant(Head(queue[o]))
               /\ (clock - last_emit[o]) >= Debounce) =>
                  /\ pc'[o] = "clear"
                  /\ paths'[o] = Sorted(changes[o] \cup {Str(Head(queue[o]))})
           /\ (outcome[o] = "raised" /\ pc[o] = "clear" /\ pc'[o] # "clear") =>
                  (pc'[o] = "callback" /\ paths'[o] = paths[o])]_vars

C7_Witness ==
    \E o \in Observers :
        /\ outcome[o] = "raised"
        /\ pc[o] = "callback"
        /\ (last_emit[o] - StartTime) >= Debounce

\* C8: Every exception of on_batch is reported to the external caller: the
\* handler call in which on_batch raised does not end like one in which it
\* returned.
C8_FailureReported ==
    [][\A o \in Observers : CallbackRaises(o) => result'[o] # "returned"]_vars

\* C9: No path is lost or duplicated.  Whatever is delivered to the queue
\* meanwhile, the pending set holds exactly the relevant paths handled since
\* the last batch was taken, and a batch taken holds exactly those, each once.
C9_NoLossNoDuplicate ==
    \A o \in Observers :
        /\ changes[o] = StrSet(since[o])
        /\ pc[o] = "clear" =>
               /\ Range(paths[o]) = StrSet(since[o])
               /\ Len(paths[o]) = Cardinality(since[o])
        /\ pc[o] = "callback" => Range(paths[o]) \cap changes[o] = {}

C9_Witness ==
    \E o \in Observers :
        /\ pc[o] = "clear"
        /\ since[o] # {}
        /\ queue[o] # <<>>
        /\ Relevant(Head(queue[o]))

\* C10: on_batch invocations of a controller are never reentrant: at most one
\* is in progress.
C10_NotReentrant == Cardinality({o \in Observers : pc[o] = "callback"}) <= 1

\* an on_batch invocation of handler o ends in this step
CallbackEnds(o) == pc[o] = "callback" /\ pc'[o] # "callback"

\* C11: A running rebuild does not block event collection.  The relevant
\* events that arrive during an on_batch invocation are in the pending set
\* when that invocation finishes.
C11_CollectedDuringRebuild ==
    [][\A o \in Observers : CallbackEnds(o) => StrSet(late[o]) \subseteq changes'[o]]_vars

\* a stop() call ends in this step
StopEnds == ctl = "joining" /\ ctl' = "ready"

\* a start() call is made in this step
StartCalled == created' = created + 1

\* C12: Lifecycle calls never raise out of order.  start() on a running
\* controller and stop() on one that is not running do not raise, also after
\* a start() that failed, and stop() on a controller that holds no observer
\* leaves it as it is.
C12_LifecycleNeverRaises ==
    [][/\ (StartCalled /\ observer # 0 /\ Running(observer)) => ~error'
       /\ (StopEnds /\ pc[observer] \in {"unstarted", "dead"}) => ~error'
       /\ (ctl = "ready" /\ ctl' = "ready" /\ observer = 0 /\ ~StartCalled) =>
              UNCHANGED <<observer, error, created>>]_vars

\* C13: Startup validation.  start() on a root that is missing or no
\* directory raises and does not begin watching: afterwards the controller
\* records no observer and no dispatch thread of it can reach on_batch.
C13_StartupValidation ==
    [][(StartCalled /\ root_kind # "directory") =>
           /\ error'
           /\ observer' = 0
           /\ \A o \in Observers : pc'[o] \in {"none", "unstarted", "dead"}]_vars

\* C16: Irrelevant events have no effect.  Handling an event whose path is
\* not relevant leaves the pending set and _last_emit as they are and begins
\* no on_batch invocation, also when paths are pending and the debounce
\* interval has elapsed.
C16_IrrelevantNoEffect ==
    [][\A o \in Observers :
          (EventHandled(o) /\ ~Relevant(Head(queue[o]))) =>
              /\ changes'[o] = changes[o]
              /\ last_emit'[o] = last_emit[o]
              /\ pc'[o] = "idle"]_vars

\* a segment of p below the root is an excluded directory name
HasExcludedSegment(p) == \E part \in Range(RelParts(p, Root)) : part \in exclude_dirs

\* C14: Exclusion is structural.  No path with a segment equal to an excluded
\* directory name, be it a directory or the file name itself, is in the
\* output of compile_codefile or among the lines of compile_structure_md.
C14_ExcludedAbsent ==
    run.pc = "done" =>
        /\ call.op = "compile_codefile" => \A i \in 1..Len(out) : ~HasExcludedSegment(out[i])
        /\ call.op = "compile_structure_md" =>
               \A i \in 1..Len(out) : ~HasExcludedSegment(out[i].entry)

\* C15: Relevance test.  The path of an event is added to the pending set
\* exactly when it is strictly within the root, none of its segments below
\* the root is an excluded directory name, and, when it is a file, its
\* string matches no exclude-file regex.
C15_RelevantIff ==
    (call.op = "on_any_event" /\ run.pc = "done") =>
        (Str(call.event) \in Range(out) <=>
            /\ IsRelativeTo(call.event, Root)
            /\ call.event # Root
            /\ ~HasExcludedSegment(call.event)
            /\ call.event \in Files => \A rx \in exclude_file_regexes : ~RxSearch(rx, Str(call.event)))

\* the file is no larger than the limit and has no null byte in its first
\* 2048 bytes
Fits(c) == c.size <= max_bytes /\ (c.nul_at = NoNul \/ c.nul_at >= PrefixLen)

\* the files a compile takes up before the size and the binary test
Candidates ==
    IF call.op = "compile_codefile"
    THEN {p \in iter_files(kind, call.include_exts) : ~Excluded(p)}
    ELSE {resolve(normalize_input_path(call.manifest[i])) :
             i \in {i \in 1..Len(call.manifest) : is_file(kind, normalize_input_path(call.manifest[i]))}}
         \cup list_folder_files(kind, call.folder)

\* C17: Size and binary filtering.  In root mode and in explicit mode a file
\* has a section only if its size is at most max_bytes and its first 2048
\* bytes hold no null byte; a file of size max_bytes + 1, or with a null byte
\* in that prefix, has none, and a file of exactly max_bytes without one has.
C17_SizeAndBinaryFilter ==
    (call.op \in {"compile_codefile", "compile_codefile_from_paths"} /\ run.pc = "done" /\ ~run.raised) =>
        /\ \A i \in 1..Len(out) : Fits(call.content[out[i]])
        /\ run.vanished = 0 => \A p \in Candidates : Fits(call.content[p]) => p \in Range(out)

C17_Witness ==
    /\ run.pc = "done"
    /\ call.op = "compile_codefile_from_paths"
    /\ PA \in Range(out)
    /\ call.content[PA] = [size |-> max_bytes, nul_at |-> PrefixLen]

\* C18: Ordering.  With order_mode "path" the sections are in the
\* case-insensitive order of the path strings; with "mtime" they are in
\* ascending order of modification time, a file that is gone when its key is
\* computed counts as time 0, and the scan does not raise.
C18_OrderingNeverRaises ==
    (call.op = "compile_codefile" /\ run.pc = "done") =>
        /\ ~run.raised
        /\ \A i, j \in 1..Len(out) :
              i < j => IF call.order_mode = "mtime"
                       THEN call.mtime[out[i]] <= call.mtime[out[j]]
                       ELSE ~StrLess(LowerStr(Str(out[j])), LowerStr(Str(out[i])))

\* C19: Explicit mode de-duplicates.  Whatever list of paths the manifest
\* holds, a file has at most one section in the codefile, and the sections
\* are in the case-insensitive ascending order of the path strings.
C19_ExplicitOnceAndOrdered ==
    (call.op = "compile_codefile_from_paths" /\ run.pc = "done") =>
        \A i, j \in 1..Len(out) :
            i < j => /\ resolve(out[i]) # resolve(out[j])
                     /\ ~StrLess(LowerStr(Str(out[j])), LowerStr(Str(out[i])))

C19_Witness ==
    /\ call.op = "compile_codefile_from_paths"
    /\ run.pc = "done"
    /\ \E i, j \in 1..Len(call.manifest) :
          /\ call.manifest[i].path # call.manifest[j].path
          /\ resolve(call.manifest[i].path) = resolve(call.manifest[j].path)
    /\ call.folder = PU
    /\ {PA, PUA} \subseteq Range(out)

\* line i is the last line for an entry of its directory
LastListed(i) == \A j \in (i + 1)..Len(out) : Parent(out[j].entry) # Parent(out[i].entry)

\* C20: Tree connectors.  In every directory with listed entries the last
\* listed entry has the closing connector and every other one the non-last
\* connector, and the indentation below a listed subdirectory closes the
\* branch exactly when that subdirectory is the last listed entry.
C20_Connectors ==
    (call.op = "compile_structure_md" /\ run.pc = "done") =>
        \A i \in 1..Len(out) :
            /\ out[i].connector = "last" <=> LastListed(i)
            /\ \A j \in 1..Len(out) :
                  Parent(out[j].entry) = out[i].entry =>
                      (out[j].prefix[Len(out[j].prefix)] = "blank" <=> LastListed(i))

\* C21: Minimum spacing of rebuilds.  Within one session, the clock reading
\* an on_batch invocation is made with is at least max(50, debounce_ms)
\* milliseconds after the reading of the invocation before it, for every
\* debounce_ms, zero and negative ones included.
C21_MinimumSpacing ==
    [][\A o \in Observers :
          (CallbackBegins(o) /\ last_emit[o] # InitialLastEmit) =>
              last_emit'[o] - last_emit[o] >= Max(MinDebounceMs, debounce_ms)]_vars

\* a session's second invocation, with a negative debounce_ms, made exactly
\* 50 ms after the first
C21_Witness ==
    \E o \in Observers :
        /\ debounce_ms < 0
        /\ pc[o] = "callback"
        /\ outcome[o] # "none"
        /\ last_emit[o] = StartTime + TickMs

=============================================================================
